---- MODULE Spec2Model ----
(***************************************************************************)
(* Model of the SLIC-style spatial clustering core of Sfumato              *)
(* (src/src/clustering.py): the spatial index BCMap with its binary        *)
(* search, range query and region query, and the refinement loop slic.     *)
(*                                                                         *)
(* Python lists are modelled as sequences; a Python index p is the         *)
(* position p + 1 of the sequence (see At).  A barcode triple (x, y, id)   *)
(* is the tuple <<x, y, id>> with id the 0-based input row.                *)
(*                                                                         *)
(* Coordinates are real-valued in the program.  The model draws the stored *)
(* x coordinates from the even numbers 2, 4, .., 2*MaxCoord (y: up to      *)
(* 2*MaxCoordY) and the query keys from all integers 1 .. 2*MaxCoord+1, so *)
(* a key can be equal to a stored coordinate, strictly between two         *)
(* adjacent ones, below all or above all of them.                          *)
(***************************************************************************)
EXTENDS Integers, Sequences, FiniteSets, TLC

\* ------------------------------------------------------------------------
\* Bounds of the model
\* ------------------------------------------------------------------------
MaxN ==
  3

MaxCoord ==
  3

MaxCoordY ==
  2

Coords ==
  { 2 * c : c \in 1..MaxCoord }

CoordsY ==
  { 2 * c : c \in 1..MaxCoordY }

Keys ==
  1..(2 * MaxCoord + 1)

Positions ==
  Coords \X CoordsY

\* k of the index: 10 as in the repository's tests, and 0
KValues ==
  {0, 10}

\* every position table with at most MaxN rows (columns x_coor, y_coor)
Tables ==
  UNION { [1..n -> Positions] : n \in 0..MaxN }

VARIABLES
  barcodes,          \* the position table handed to BCMap / slic
  k,                 \* number of cluster centres
  pc,                \* position of the caller
  x_sorted,          \* BCMap.x_sorted
  y_sorted,          \* BCMap.y_sorted
  S,                 \* BCMap.S = sqrt(n / k), kept as the pair <<n, k>>
  ret,               \* outcome of the last call made on the index
  cm,                \* feature matrix (barcodes x genes) handed to slic
  threshold,         \* convergence threshold of slic
  m,                 \* compactness weight of slic
  cluster_centers,   \* slic: current centres, each <<x, y, f1, .., fg>>
  labels,            \* slic: centre index per cell, -1 = unassigned
  distances,         \* slic: best distance per cell
  residual_error,    \* slic: residual error tested by the loop
  passes,            \* number of refinement passes started
  regions,           \* region query results of a given index, per centre
  new_centers,       \* find_new_clusters: the list new_centers
  c_i,               \* find_new_clusters: index of the centre in process
  bs_i,              \* bs_mechanism: argument i of the call in progress
  bs_j,              \* bs_mechanism: argument j of the call in progress
  bs_depth,          \* bs_mechanism: number of recursive calls made
  edges,             \* pairs of correlated columns (find_corr_cols)
  bags,              \* getting_bags: the list bags
  cols_2_rm          \* removing_cols_from_bags: the set cols_2_rm

indexVars ==
  <<x_sorted, y_sorted, S>>

inputVars ==
  <<barcodes, k, cm, threshold, m, regions>>

slicVars ==
  <<cluster_centers, labels, distances, residual_error, passes>>

passVars ==
  <<new_centers, c_i>>

searchVars ==
  <<bs_i, bs_j, bs_depth>>

bagVars ==
  <<edges, bags, cols_2_rm>>

vars ==
  <<barcodes, k, pc, x_sorted, y_sorted, S, ret, cm, threshold, m,
    cluster_centers, labels, distances, residual_error, passes, regions,
    new_centers, c_i, bs_i, bs_j, bs_depth, edges, bags, cols_2_rm>>

\* ------------------------------------------------------------------------
\* Python values
\* ------------------------------------------------------------------------
\* element p (0-based) of a Python list
At(list, p) ==
  list[p + 1]

\* outcome of a call: either a raised exception or a returned value.
\* isNone: the call returned None; index: a returned list index;
\* bcs: a returned set of barcode triples.
Returned(io, ix, st) ==
  [raised |-> "none", isNone |-> io, index |-> ix, bcs |-> st]

Raised(exc) ==
  [raised |-> exc, isNone |-> FALSE, index |-> 0, bcs |-> {}]

ReturnIndex(ix) ==
  Returned(FALSE, ix, {})

ReturnNone ==
  Returned(TRUE, 0, {})

ReturnSet(st) ==
  Returned(FALSE, 0, st)

\* ------------------------------------------------------------------------
\* BCMap.__init__
\* ------------------------------------------------------------------------
\* xy = [(x, y, i) for i, (x, y) in enumerate(zip(x_coor, y_coor))]
xy(table) ==
  [ p \in 1..Len(table) |-> <<table[p][1], table[p][2], p - 1>> ]

\* insertion of e behind every element whose key is <= the key of e
\* (sorted() is stable: elements with equal keys keep their input order)
RECURSIVE InsertByKey(_, _, _)
InsertByKey(list, e, index) ==
  IF list = <<>> THEN <<e>>
  ELSE IF At(e, index) < At(Head(list), index) THEN <<e>> \o list
  ELSE <<Head(list)>> \o InsertByKey(Tail(list), e, index)

\* variant: the key is always the first component of the triple
RECURSIVE sorted_first_key(_, _)
sorted_first_key(list, index) ==
  IF list = <<>> THEN <<>>
  ELSE InsertByKey(sorted_first_key(SubSeq(list, 1, Len(list) - 1), index),
                   list[Len(list)], 0)

\* sorted(list, key=lambda triple: triple[index])
RECURSIVE sorted(_, _)
sorted(list, index) ==
  IF list = <<>> THEN <<>>
  ELSE InsertByKey(sorted(SubSeq(list, 1, Len(list) - 1), index),
                   list[Len(list)], index)

\* ------------------------------------------------------------------------
\* BCMap.bs_mechanism / BCMap.binary_search
\* ------------------------------------------------------------------------
\* variant: the midpoint rounded down instead of up
UpperMid_floor(i, j) ==
  (i + j) \div 2

\* mid = int(np.ceil((i+j)/2))
UpperMid(i, j) ==
  (i + j + 1) \div 2

\* variant: a collapsed midpoint returns the upper bound j instead of i
RECURSIVE bs_mechanism_upper(_, _, _, _, _)
bs_mechanism_upper(sorted_values, index, start, i, j) ==
  LET mid == UpperMid(i, j) IN
  IF start = At(At(sorted_values, mid), index) THEN mid
  ELSE IF mid = i \/ mid = j THEN j
  ELSE IF start < At(At(sorted_values, mid), index)
       THEN bs_mechanism_upper(sorted_values, index, start, i, mid)
       ELSE bs_mechanism_upper(sorted_values, index, start, mid, j)

RECURSIVE bs_mechanism(_, _, _, _, _)
bs_mechanism(sorted_values, index, start, i, j) ==
  LET mid == UpperMid(i, j) IN
  IF start = At(At(sorted_values, mid), index) THEN mid
  ELSE IF mid = i \/ mid = j THEN i
  ELSE IF start < At(At(sorted_values, mid), index)
       THEN bs_mechanism(sorted_values, index, start, i, mid)
       ELSE bs_mechanism(sorted_values, index, start, mid, j)

\* variant: a key above every stored value yields the last index, not None
binary_search_clamped(sorted_values, index, start) ==
  IF Len(sorted_values) = 0 THEN Raised("ValueError")
  ELSE LET j == Len(sorted_values) - 1 IN
       IF start < At(At(sorted_values, 0), index) THEN ReturnIndex(0)
       ELSE IF start > At(At(sorted_values, j), index) THEN ReturnIndex(j)
       ELSE ReturnIndex(bs_mechanism(sorted_values, index, start, 0, j))

binary_search(sorted_values, index, start) ==
  IF Len(sorted_values) = 0 THEN Raised("ValueError")
  ELSE LET j == Len(sorted_values) - 1 IN
       IF start < At(At(sorted_values, 0), index) THEN ReturnIndex(0)
       ELSE IF start > At(At(sorted_values, j), index) THEN ReturnNone
       ELSE ReturnIndex(bs_mechanism(sorted_values, index, start, 0, j))

\* ------------------------------------------------------------------------
\* BCMap.find_bc_range
\* ------------------------------------------------------------------------
\* the while loop of find_bc_range, from initial_index on
RECURSIVE ScanRange(_, _, _, _, _)
ScanRange(sorted_values, index, stop, initial_index, ranged_barcodes) ==
  IF initial_index < Len(sorted_values)
     /\ At(At(sorted_values, initial_index), index) <= stop
  THEN ScanRange(sorted_values, index, stop, initial_index + 1,
                 ranged_barcodes \cup {At(sorted_values, initial_index)})
  ELSE ranged_barcodes

\* find_bc_range scanning from the first entry of the list instead of the
\* index found by the search
find_bc_range_from_first(sorted_values, index, start, stop) ==
  LET initial == binary_search(sorted_values, index, start) IN
  IF initial.raised # "none" THEN initial
  ELSE IF initial.isNone THEN ReturnSet({})
  ELSE ReturnSet(ScanRange(sorted_values, index, stop, 0, {}))

find_bc_range(sorted_values, index, start, stop) ==
  LET initial == binary_search(sorted_values, index, start) IN
  IF initial.raised # "none" THEN initial
  ELSE IF initial.isNone THEN ReturnSet({})
  ELSE ReturnSet(ScanRange(sorted_values, index, stop, initial.index, {}))

\* ------------------------------------------------------------------------
\* BCMap.find_bc_in_region
\* ------------------------------------------------------------------------
\* number of parameters of find_bc_range(sorted_values, index, start, stop)
FindBcRangeArity ==
  4

\* A call self.find_bc_range(*args): Python binds the positional arguments
\* to the parameters before the body runs and raises TypeError when a
\* required parameter is left without an argument.
BindFindBcRange(args) ==
  IF Len(args) # FindBcRangeArity THEN Raised("TypeError")
  ELSE find_bc_range(args[1], args[2], args[3], args[4])

\* x_c - 2/self.S and x_c + 2/self.S with S = sqrt(n/k): the window end is
\* kept symbolically as centre coordinate, sign and grid interval
WindowEnd(c, sign, grid) ==
  [c |-> c, sign |-> sign, twoOver |-> grid]

find_bc_in_region(xs, ys, grid, center) ==
  \* x_c, y_c = center: unpacking raises ValueError unless center has
  \* exactly two components
  IF Len(center) # 2 THEN Raised("ValueError") ELSE
  LET x_c == center[1]
      y_c == center[2]
      \* self.find_bc_range(self.x_sorted, x_c - 2/self.S, x_c + 2/self.S)
      bc_range == BindFindBcRange(<<xs, WindowEnd(x_c, -1, grid),
                                    WindowEnd(x_c, 1, grid)>>)
  IN IF bc_range.raised # "none" THEN bc_range
     ELSE LET \* bc_range &= self.find_bc_range(self.y_sorted, ...)
              other == BindFindBcRange(<<ys, WindowEnd(y_c, -1, grid),
                                         WindowEnd(y_c, 1, grid)>>)
          IN IF other.raised # "none" THEN other
             ELSE ReturnSet(bc_range.bcs \cap other.bcs)

\* ------------------------------------------------------------------------
\* The index and its callers
\* ------------------------------------------------------------------------
IdleRet ==
  [op |-> "none", index |-> 0, start |-> 0, stop |-> 0, center |-> <<0, 0>>,
   out |-> Returned(FALSE, 0, {})]

\* no search and no bag computation in progress
IdleSearch ==
  bs_i = 0 /\ bs_j = 0 /\ bs_depth = 0

IdleBags ==
  edges = <<>> /\ bags = <<>> /\ cols_2_rm = {}

Init ==
  /\ barcodes \in Tables
  /\ k \in KValues
  /\ pc = "new"
  /\ x_sorted = <<>>
  /\ y_sorted = <<>>
  /\ S = <<0, 1>>
  /\ ret = IdleRet
  /\ cm = <<>>
  /\ threshold = <<0, 0>>
  /\ m = 1
  /\ cluster_centers = <<>>
  /\ labels = <<>>
  /\ distances = <<>>
  /\ residual_error = <<0, 0>>
  /\ passes = 0
  /\ regions = <<>>
  /\ new_centers = <<>>
  /\ c_i = 0
  /\ IdleSearch
  /\ IdleBags

\* variant: an empty position table is rejected at construction
Construct_rejecting_empty ==
  /\ pc = "new"
  /\ IF k = 0 \/ Len(barcodes) = 0
     THEN /\ pc' = "raised"
          /\ ret' = [IdleRet EXCEPT !.op = "__init__",
                        !.out = Raised(IF k = 0 THEN "ZeroDivisionError"
                                                ELSE "ValueError")]
          /\ UNCHANGED <<x_sorted, y_sorted, S>>
     ELSE /\ pc' = "ready"
          /\ x_sorted' = sorted(xy(barcodes), 0)
          /\ y_sorted' = sorted(xy(barcodes), 1)
          /\ S' = <<Len(barcodes), k>>
          /\ ret' = [IdleRet EXCEPT !.op = "__init__"]
  /\ UNCHANGED <<inputVars, searchVars, bagVars, slicVars, passVars>>

\* BCMap(barcodes, k)
Construct ==
  /\ pc = "new"
  /\ IF k = 0
     THEN \* len(barcodes)/k raises ZeroDivisionError
          /\ pc' = "raised"
          /\ ret' = [IdleRet EXCEPT !.op = "__init__",
                                    !.out = Raised("ZeroDivisionError")]
          /\ UNCHANGED <<x_sorted, y_sorted, S>>
     ELSE /\ pc' = "ready"
          /\ x_sorted' = sorted(xy(barcodes), 0)
          /\ y_sorted' = sorted(xy(barcodes), 1)
          /\ S' = <<Len(barcodes), k>>
          /\ ret' = [IdleRet EXCEPT !.op = "__init__"]
  /\ UNCHANGED <<inputVars, searchVars, bagVars, slicVars, passVars>>

\* the projection sorted on the coordinate with the given tuple index
Projection(index) ==
  IF index = 0 THEN x_sorted ELSE y_sorted

\* bc_map.binary_search(sorted_values, index, start)
CallBinarySearch ==
  /\ pc = "ready"
  /\ \E index \in {0, 1}, start \in Keys :
       ret' = [IdleRet EXCEPT !.op = "binary_search", !.index = index,
                 !.start = start,
                 !.out = binary_search(Projection(index), index, start)]
  /\ pc' = "returned"
  /\ UNCHANGED <<inputVars, searchVars, bagVars, indexVars, slicVars, passVars>>

\* bc_map.find_bc_range(sorted_values, index, start, stop), start <= stop
CallFindBcRange ==
  /\ pc = "ready"
  /\ \E index \in {0, 1}, start \in Keys, stop \in Keys :
       /\ start <= stop
       /\ ret' = [IdleRet EXCEPT !.op = "find_bc_range", !.index = index,
                    !.start = start, !.stop = stop,
                    !.out = find_bc_range(Projection(index), index,
                                          start, stop)]
  /\ pc' = "returned"
  /\ UNCHANGED <<inputVars, searchVars, bagVars, indexVars, slicVars, passVars>>

\* bc_map.find_bc_in_region(center)
CallFindBcInRegion ==
  /\ pc = "ready"
  /\ \E center \in Positions :
       ret' = [IdleRet EXCEPT !.op = "find_bc_in_region", !.center = center,
                 !.out = find_bc_in_region(x_sorted, y_sorted, S, center)]
  /\ pc' = "returned"
  /\ UNCHANGED <<inputVars, searchVars, bagVars, indexVars, slicVars, passVars>>

\* the caller drops the result; the index is read-only and can be queried again
Discard ==
  /\ pc = "returned"
  /\ pc' = "ready"
  /\ ret' = [IdleRet EXCEPT !.op = "__init__"]
  /\ UNCHANGED <<inputVars, searchVars, bagVars, indexVars, slicVars, passVars>>

Next ==
  \/ Construct
  \/ CallBinarySearch
  \/ CallFindBcRange
  \/ CallFindBcInRegion
  \/ Discard

Spec ==
  Init /\ [][Next]_vars


\* ------------------------------------------------------------------------
\* Floating point values of threshold and residual_error
\* ------------------------------------------------------------------------
\* A double is kept as <<hi, lo>> = hi * 2^54 + lo with lo a small natural
\* and lo = 0 when hi > 0.  From 2^54 on adjacent doubles are 4 apart, so
\* adding 1.0 rounds back to the same value.
Float(v) ==
  <<0, v>>

BigFloat ==
  <<1, 0>>

\* v + 1
FloatPlusOne(v) ==
  IF v[1] > 0 THEN v ELSE <<0, v[2] + 1>>

\* a <= b
FloatLeq(a, b) ==
  a[1] < b[1] \/ (a[1] = b[1] /\ a[2] <= b[2])

\* ------------------------------------------------------------------------
\* Distance functions
\* ------------------------------------------------------------------------
RECURSIVE eucledian_distance(_, _)
eucledian_distance(center, barcode) ==
  IF center = <<>> THEN 0
  ELSE (Head(center) - Head(barcode)) * (Head(center) - Head(barcode))
         + eucledian_distance(Tail(center), Tail(barcode))

\* barcode_distance with m**2 weighting the count term instead of the
\* spatial term
barcode_distance_weighting_counts(center_pos, center_genes, barcode_pos, barcode_genes, grid, mw) ==
  LET sq_d_c == eucledian_distance(center_genes, barcode_genes)
      sq_d_s == eucledian_distance(center_pos, barcode_pos)
  IN [infinite |-> FALSE,
      num |-> grid[1] * mw * mw * sq_d_c + grid[2] * sq_d_s,
      den |-> grid[1]]

\* sqrt(sq_d_c + (sq_d_s / S**2) * m**2) with S**2 = n / k: the value is kept
\* as the fraction num / den of its square; infinite = float('inf')
barcode_distance(center_pos, center_genes, barcode_pos, barcode_genes, grid, mw) ==
  LET sq_d_c == eucledian_distance(center_genes, barcode_genes)
      sq_d_s == eucledian_distance(center_pos, barcode_pos)
  IN [infinite |-> FALSE,
      num |-> grid[1] * sq_d_c + grid[2] * mw * mw * sq_d_s,
      den |-> grid[1]]

Infinity ==
  [infinite |-> TRUE, num |-> 0, den |-> 1]

\* d <= e in the place of d < e
DistLess_or_equal(d, e) ==
  /\ ~ d.infinite
  /\ (e.infinite \/ d.num * e.den <= e.num * d.den)

\* d < e on distances
DistLess(d, e) ==
  /\ ~ d.infinite
  /\ (e.infinite \/ d.num * e.den < e.num * d.den)

\* ------------------------------------------------------------------------
\* find_new_clusters
\* ------------------------------------------------------------------------
\* outcome of find_new_clusters: the exception raised (or "none"), the
\* lists labels and distances as mutated in place, and new_centers
PassOutcome(exc, lab, dist, centres) ==
  [raised |-> exc, labels |-> lab, distances |-> dist,
   new_centers |-> centres]

\* componentwise sum of two vectors
RECURSIVE VecAdd(_, _)
VecAdd(a, b) ==
  IF a = <<>> THEN <<>>
  ELSE <<Head(a) + Head(b)>> \o VecAdd(Tail(a), Tail(b))

\* the barcode of the set with the smallest id
FirstBarcode(bcs) ==
  CHOOSE t \in bcs : \A u \in bcs : t[3] <= u[3]

\* the loop over the barcodes of one centre's region (lines 245-255); the
\* barcodes of the set are visited by ascending id.  acc is the running
\* sum new_centers[c_i], n the number of barcodes folded.
\* RegionLoop writing the label of a closer barcode but not its distance
RECURSIVE RegionLoop_label_only(_, _, _, _, _, _, _, _, _, _)
RegionLoop_label_only(cmx, grid, center, ci, mw, todo, lab, dist, acc, n) ==
  IF todo = {} THEN [raised |-> "none", labels |-> lab, distances |-> dist,
                     acc |-> acc, n |-> n]
  ELSE LET t == FirstBarcode(todo)
           i == t[3]
           coor == <<t[1], t[2]>>
       IN IF i >= Len(dist)
          THEN [raised |-> "IndexError", labels |-> lab, distances |-> dist,
                acc |-> acc, n |-> n]
          ELSE LET cm_counts == At(cmx.rows, i)
                   d == barcode_distance(SubSeq(center, 1, 2),
                                         SubSeq(center, 3, Len(center)),
                                         coor, cm_counts, grid, mw)
               IN IF DistLess(d, At(dist, i))
                  THEN RegionLoop_label_only(cmx, grid, center, ci, mw,
                                  todo \ {t}, [lab EXCEPT ![i + 1] = ci],
                                  dist, VecAdd(acc, coor \o cm_counts), n + 1)
                  ELSE RegionLoop_label_only(cmx, grid, center, ci, mw,
                                  todo \ {t}, lab, dist, acc, n)

RECURSIVE RegionLoop(_, _, _, _, _, _, _, _, _, _)
RegionLoop(cmx, grid, center, ci, mw, todo, lab, dist, acc, n) ==
  IF todo = {} THEN [raised |-> "none", labels |-> lab, distances |-> dist,
                     acc |-> acc, n |-> n]
  ELSE LET t == FirstBarcode(todo)
           i == t[3]
           coor == <<t[1], t[2]>>
       IN IF i >= Len(dist)
          THEN \* distances[i] is outside the list
               [raised |-> "IndexError", labels |-> lab, distances |-> dist,
                acc |-> acc, n |-> n]
          ELSE LET cm_counts == At(cmx.rows, i)
                   d == barcode_distance(SubSeq(center, 1, 2),
                                         SubSeq(center, 3, Len(center)),
                                         coor, cm_counts, grid, mw)
               IN IF DistLess(d, At(dist, i))
                  THEN RegionLoop(cmx, grid, center, ci, mw, todo \ {t},
                                  [lab EXCEPT ![i + 1] = ci],
                                  [dist EXCEPT ![i + 1] = d],
                                  VecAdd(acc, coor \o cm_counts), n + 1)
                  ELSE RegionLoop(cmx, grid, center, ci, mw, todo \ {t},
                                  lab, dist, acc, n)

\* The argument bc_map of find_new_clusters.  kind "BCMap": the index built
\* by BCMap(barcodes, k).  kind "given": an index object whose region query
\* returns, for the centre handed to it, the set of barcode triples region
\* holds for that centre.
BCMapObject(xs, ys, grid) ==
  [kind |-> "BCMap", x_sorted |-> xs, y_sorted |-> ys, S |-> grid]

GivenIndex(region, grid) ==
  [kind |-> "given", region |-> region, S |-> grid]

\* bc_map.find_bc_in_region(center)
RegionOf(bc_map, center) ==
  IF bc_map.kind = "BCMap"
  THEN find_bc_in_region(bc_map.x_sorted, bc_map.y_sorted, bc_map.S, center)
  ELSE ReturnSet(bc_map.region[center])

\* outcome of one iteration of the loop over the centres
CentreOutcome(exc, lab, dist, value) ==
  [raised |-> exc, labels |-> lab, distances |-> dist, value |-> value]

\* a centre value: the accumulated sum and the count it is divided by
CentreValue(acc, n) ==
  [sum |-> acc, n |-> n]

\* line 257: new_centers[c_i] /= n, on the outcome r of the loop over the
\* barcodes of the region
DivideByCount(r) ==
  IF r.raised # "none"
  THEN CentreOutcome(r.raised, r.labels, r.distances, CentreValue(r.acc, r.n))
  ELSE IF r.n = 0
  THEN \* new_centers[c_i] is still the list [zeros]: list /= int raises
       \* TypeError
       CentreOutcome("TypeError", r.labels, r.distances,
                     CentreValue(r.acc, r.n))
  ELSE \* the first += turned the list into an array; array /= n
       CentreOutcome("none", r.labels, r.distances, CentreValue(r.acc, r.n))

\* lines 245-257 on the outcome region of bc_map.find_bc_in_region(center)
FoldRegion(cmx, grid, center, ci, mw, region, lab, dist, zeros) ==
  IF region.raised # "none"
  THEN CentreOutcome(region.raised, lab, dist, CentreValue(zeros, 0))
  ELSE DivideByCount(RegionLoop(cmx, grid, center, ci, mw, region.bcs,
                                lab, dist, zeros, 0))

\* one iteration of the loop over the centres (lines 240-257), centre c_i
CentreStep(cmx, bc_map, c_k, mw, ci, lab, dist) ==
  FoldRegion(cmx, bc_map.S, At(c_k, ci), ci, mw,
             RegionOf(bc_map, At(c_k, ci)), lab, dist,
             [p \in 1..(cmx.shape[2] + 2) |-> 0])

\* the loop over the centres (lines 240-257), from centre c_i on; step is
\* the outcome of the iteration for centre c_i
RECURSIVE CentreLoop(_, _, _, _, _, _, _, _)
AfterCentre(cmx, bc_map, c_k, mw, ci, centres, step) ==
  IF step.raised # "none"
  THEN PassOutcome(step.raised, step.labels, step.distances, centres)
  ELSE CentreLoop(cmx, bc_map, c_k, mw, ci + 1, step.labels, step.distances,
                  Append(centres, step.value))

CentreLoop(cmx, bc_map, c_k, mw, ci, lab, dist, centres) ==
  IF ci >= Len(c_k) THEN PassOutcome("none", lab, dist, centres)
  ELSE AfterCentre(cmx, bc_map, c_k, mw, ci, centres,
                   CentreStep(cmx, bc_map, c_k, mw, ci, lab, dist))

find_new_clusters(cmx, bc_map, c_k, lab, dist, mw) ==
  CentreLoop(cmx, bc_map, c_k, mw, 0, lab, dist, <<>>)

\* ------------------------------------------------------------------------
\* slic
\* ------------------------------------------------------------------------
MaxSlicN ==
  2

MaxGenes ==
  1

\* positions of the barcodes handed to slic: a 2 x 2 grid
SlicPositions ==
  {2, 4} \X {2, 4}

\* gene counts of the feature matrix
Counts ==
  {0, 1}

\* feature matrices with n rows: shape (n, g), rows of g counts
Matrices(n) ==
  UNION { { [shape |-> <<n, g>>, rows |-> r] :
              r \in [1..n -> [1..g -> Counts]] } : g \in 1..MaxGenes }

ThresholdValues ==
  {Float(0), Float(1), BigFloat}

\* values of m: the ends of the documented range [1, 40] and one outside
MValues ==
  {1, 40, 41}

\* Seeding of the k centres (line 298, "initialize cluster centers"): every
\* centre is snapped to a barcode and takes its position and features, the
\* centres ordered by barcode id.
InitialCentres(table, cmx, kk) ==
  IF Len(table) = 0 THEN {<<>>}
  ELSE { [c \in 1..kk |-> table[ids[c]] \o cmx.rows[ids[c]]] :
           ids \in { f \in [1..kk -> 1..Len(table)] :
                       \A c \in 1..(kk - 1) : f[c] <= f[c + 1] } }

\* Residual error (line 308, "calculate residual error"): the sum over the
\* centres of the displacement between old and new position, kept as 0 when
\* no centre moved and as 1 (some positive value) otherwise.
ResidualError(old, new) ==
  IF \A c \in 1..Len(new) :
       /\ new[c].sum[1] = old[c][1] * new[c].n
       /\ new[c].sum[2] = old[c][2] * new[c].n
  THEN Float(0)
  ELSE Float(1)

\* a call slic(barcodes, cm, k, threshold, m)
SlicInit ==
  /\ \E n \in 1..MaxSlicN :
       /\ barcodes \in [1..n -> SlicPositions]
       /\ cm \in Matrices(n)
       /\ k \in 0..(n + 1)
  /\ threshold \in ThresholdValues
  /\ m \in MValues
  /\ pc = "slic_call"
  /\ x_sorted = <<>>
  /\ y_sorted = <<>>
  /\ S = <<0, 1>>
  /\ ret = IdleRet
  /\ cluster_centers = <<>>
  /\ labels = <<>>
  /\ distances = <<>>
  /\ residual_error = Float(0)
  /\ passes = 0
  /\ regions = <<>>
  /\ new_centers = <<>>
  /\ c_i = 0
  /\ IdleSearch
  /\ IdleBags

\* lines 297-303: the index, the centres, labels, distances, residual_error
SlicEnter ==
  /\ pc = "slic_call"
  /\ IF k = 0
     THEN \* BCMap(barcodes, k): len(barcodes)/k raises ZeroDivisionError
          /\ pc' = "slic_raised"
          /\ ret' = [IdleRet EXCEPT !.op = "slic",
                                    !.out = Raised("ZeroDivisionError")]
          /\ UNCHANGED <<indexVars, slicVars>>
     ELSE /\ x_sorted' = sorted(xy(barcodes), 0)
          /\ y_sorted' = sorted(xy(barcodes), 1)
          /\ S' = <<Len(barcodes), k>>
          /\ cluster_centers' \in InitialCentres(barcodes, cm, k)
          /\ labels' = [p \in 1..cm.shape[2] |-> -1]
          /\ distances' = [p \in 1..cm.shape[2] |-> Infinity]
          /\ residual_error' = FloatPlusOne(threshold)
          /\ pc' = "slic_loop"
          /\ UNCHANGED <<ret, passes>>
  /\ UNCHANGED <<inputVars, searchVars, bagVars, passVars>>

\* bc_map = BCMap(barcodes, k)
TheIndex ==
  BCMapObject(x_sorted, y_sorted, S)

\* lines 305-309: one pass of the while loop
SlicPass ==
  /\ pc = "slic_loop"
  /\ FloatLeq(residual_error, threshold)
  /\ LET new_clusters == find_new_clusters(cm, TheIndex, cluster_centers,
                                            labels, distances, m)
     IN /\ labels' = new_clusters.labels
        /\ distances' = new_clusters.distances
        /\ passes' = passes + 1
        /\ IF new_clusters.raised # "none"
           THEN /\ pc' = "slic_raised"
                /\ ret' = [IdleRet EXCEPT !.op = "slic",
                             !.out = Raised(new_clusters.raised)]
                /\ UNCHANGED <<cluster_centers, residual_error>>
           ELSE /\ residual_error' = ResidualError(cluster_centers,
                                                   new_clusters.new_centers)
                /\ cluster_centers' = new_clusters.new_centers
                /\ UNCHANGED <<pc, ret>>
  /\ UNCHANGED <<inputVars, searchVars, bagVars, indexVars, passVars>>

\* line 311: return labels
SlicReturn ==
  /\ pc = "slic_loop"
  /\ ~ FloatLeq(residual_error, threshold)
  /\ pc' = "slic_returned"
  /\ ret' = [IdleRet EXCEPT !.op = "slic"]
  /\ UNCHANGED <<inputVars, searchVars, bagVars, indexVars, slicVars, passVars>>

SlicNext ==
  \/ SlicEnter
  \/ SlicPass
  \/ SlicReturn

SlicSpec ==
  SlicInit /\ [][SlicNext]_vars

\* ------------------------------------------------------------------------
\* Calls of barcode_distance
\* ------------------------------------------------------------------------
\* grid intervals S = sqrt(n / k) > 0, kept as <<n, k>>
Grids ==
  { <<n, kk>> : n \in 1..MaxSlicN, kk \in 1..(MaxSlicN + 1) }

\* vectors of gene counts
GeneVectors ==
  UNION { [1..g -> Counts] : g \in 1..MaxGenes }

\* a caller about to evaluate
\* barcode_distance(center[:2], center[2:], coor, cm_counts, S, m):
\* the centre in cluster_centers, the barcode in barcodes and cm
DistInit ==
  /\ \E center_genes \in GeneVectors, center_pos, coor \in SlicPositions :
       /\ cluster_centers = <<center_pos \o center_genes>>
       /\ barcodes = <<coor>>
       /\ cm \in { [shape |-> <<1, Len(center_genes)>>, rows |-> <<r>>] :
                     r \in [1..Len(center_genes) -> Counts] }
  /\ S \in Grids
  /\ m \in MValues
  /\ k = S[2]
  /\ threshold = Float(0)
  /\ pc = "dist_call"
  /\ x_sorted = <<>>
  /\ y_sorted = <<>>
  /\ ret = IdleRet
  /\ labels = <<-1>>
  /\ distances = <<Infinity>>
  /\ residual_error = Float(0)
  /\ passes = 0
  /\ regions = <<>>
  /\ new_centers = <<>>
  /\ c_i = 0
  /\ IdleSearch
  /\ IdleBags

\* d = barcode_distance(...), stored in distances[0] (lines 248-251)
CallBarcodeDistance ==
  /\ pc = "dist_call"
  /\ LET center == cluster_centers[1]
     IN distances' = <<barcode_distance(SubSeq(center, 1, 2),
                                        SubSeq(center, 3, Len(center)),
                                        barcodes[1], cm.rows[1], S, m)>>
  /\ pc' = "dist_returned"
  /\ ret' = [IdleRet EXCEPT !.op = "barcode_distance"]
  /\ UNCHANGED <<inputVars, searchVars, bagVars, x_sorted, y_sorted, S, cluster_centers, labels,
                 residual_error, passes, passVars>>

DistNext ==
  CallBarcodeDistance

DistSpec ==
  DistInit /\ [][DistNext]_vars

\* ------------------------------------------------------------------------
\* Calls of find_new_clusters with a given index
\* ------------------------------------------------------------------------
\* A caller allocates labels and distances with one cell per barcode and
\* calls find_new_clusters(cm, bc_map, c_k, labels, distances, m) repeatedly
\* with the same centres c_k; bc_map is an index whose region query returns
\* a set of barcode triples for each centre.  The call is followed centre by
\* centre: one step for every iteration of the loop at line 240.
MaxPassN ==
  2

MaxPasses ==
  2

\* positions of the barcodes: two points of one row
PassPositions ==
  {<<2, 2>>, <<4, 2>>}

\* one gene per barcode
PassMatrices(n) ==
  { [shape |-> <<n, 1>>, rows |-> r] : r \in [1..n -> [1..1 -> Counts]] }

PassMValues ==
  {1, 40}

\* the set of the values of a list
Values(list) ==
  { list[p] : p \in 1..Len(list) }

\* the triples (x, y, i) of a table (line 71)
TriplesOf(table) ==
  { <<table[p][1], table[p][2], p - 1>> : p \in 1..Len(table) }

PassInit ==
  /\ \E n \in 1..MaxPassN :
       /\ barcodes \in [1..n -> PassPositions]
       /\ cm \in PassMatrices(n)
       /\ k \in 1..n
  /\ m \in PassMValues
  /\ cluster_centers \in InitialCentres(barcodes, cm, k)
  /\ regions \in [Values(cluster_centers) -> SUBSET TriplesOf(barcodes)]
  /\ S = <<Len(barcodes), k>>
  /\ labels = [p \in 1..Len(barcodes) |-> -1]
  /\ distances = [p \in 1..Len(barcodes) |-> Infinity]
  /\ threshold = Float(0)
  /\ residual_error = Float(0)
  /\ pc = "pass_call"
  /\ x_sorted = <<>>
  /\ y_sorted = <<>>
  /\ ret = IdleRet
  /\ passes = 0
  /\ new_centers = <<>>
  /\ c_i = 0
  /\ IdleSearch
  /\ IdleBags

\* lines 238-240: new_centers = [], the loop over the centres starts
PassBegin ==
  /\ pc \in {"pass_call", "pass_returned", "pass_raised"}
  /\ passes < MaxPasses
  /\ passes' = passes + 1
  /\ new_centers' = <<>>
  /\ c_i' = 0
  /\ pc' = "pass_centre"
  /\ ret' = IdleRet
  /\ UNCHANGED <<inputVars, searchVars, bagVars, indexVars, cluster_centers, labels, distances,
                 residual_error>>

\* PassCentre taking a barcode out of the count of the earlier centre it is
\* taken from
PassCentre_unfolding_taken ==
  /\ pc = "pass_centre"
  /\ c_i < Len(cluster_centers)
  /\ LET step == CentreStep(cm, GivenIndex(regions, S), cluster_centers, m,
                            c_i, labels, distances)
     IN /\ labels' = step.labels
        /\ distances' = step.distances
        /\ IF step.raised # "none"
           THEN /\ pc' = "pass_raised"
                /\ ret' = [IdleRet EXCEPT !.op = "find_new_clusters",
                                          !.out = Raised(step.raised)]
                /\ UNCHANGED <<new_centers, c_i>>
           ELSE /\ new_centers' =
                     Append([c \in 1..Len(new_centers) |->
                               [new_centers[c] EXCEPT !.n = @ - Cardinality(
                                  { p \in 1..Len(labels) :
                                      /\ labels[p] = c - 1
                                      /\ step.labels[p] = c_i })]],
                            step.value)
                /\ c_i' = c_i + 1
                /\ UNCHANGED <<pc, ret>>
  /\ UNCHANGED <<inputVars, searchVars, bagVars, indexVars, cluster_centers, residual_error,
                 passes>>

\* PassCentre writing the new value of the centre into c_k as well
PassCentre_in_place ==
  /\ pc = "pass_centre"
  /\ c_i < Len(cluster_centers)
  /\ LET step == CentreStep(cm, GivenIndex(regions, S), cluster_centers, m,
                            c_i, labels, distances)
     IN /\ labels' = step.labels
        /\ distances' = step.distances
        /\ IF step.raised # "none"
           THEN /\ pc' = "pass_raised"
                /\ ret' = [IdleRet EXCEPT !.op = "find_new_clusters",
                                          !.out = Raised(step.raised)]
                /\ UNCHANGED <<new_centers, c_i, cluster_centers>>
           ELSE /\ new_centers' = Append(new_centers, step.value)
                /\ cluster_centers' =
                     [cluster_centers EXCEPT ![c_i + 1] = step.value.sum]
                /\ c_i' = c_i + 1
                /\ UNCHANGED <<pc, ret>>
  /\ UNCHANGED <<inputVars, searchVars, bagVars, indexVars, residual_error, passes>>

\* lines 240-257: one iteration of the loop over the centres
PassCentre ==
  /\ pc = "pass_centre"
  /\ c_i < Len(cluster_centers)
  /\ LET step == CentreStep(cm, GivenIndex(regions, S), cluster_centers, m,
                            c_i, labels, distances)
     IN /\ labels' = step.labels
        /\ distances' = step.distances
        /\ IF step.raised # "none"
           THEN /\ pc' = "pass_raised"
                /\ ret' = [IdleRet EXCEPT !.op = "find_new_clusters",
                                          !.out = Raised(step.raised)]
                /\ UNCHANGED <<new_centers, c_i>>
           ELSE /\ new_centers' = Append(new_centers, step.value)
                /\ c_i' = c_i + 1
                /\ UNCHANGED <<pc, ret>>
  /\ UNCHANGED <<inputVars, searchVars, bagVars, indexVars, cluster_centers, residual_error,
                 passes>>

\* line 259: return new_centers
PassEnd ==
  /\ pc = "pass_centre"
  /\ c_i = Len(cluster_centers)
  /\ pc' = "pass_returned"
  /\ ret' = [IdleRet EXCEPT !.op = "find_new_clusters"]
  /\ UNCHANGED <<inputVars, searchVars, bagVars, indexVars, slicVars, passVars>>

PassNext ==
  \/ PassBegin
  \/ PassCentre
  \/ PassEnd

PassSpec ==
  PassInit /\ [][PassNext]_vars

\* ------------------------------------------------------------------------
\* A binary search followed call by call
\* ------------------------------------------------------------------------
\* binary_search(sorted_values, index, start) on a projection of the index
\* built from barcodes; every call of bs_mechanism is one step, bs_i and
\* bs_j are its arguments i and j.
BsInit ==
  /\ barcodes \in Tables
  /\ k = 10
  /\ x_sorted = sorted(xy(barcodes), 0)
  /\ y_sorted = sorted(xy(barcodes), 1)
  /\ S = <<Len(barcodes), 10>>
  /\ \E index \in {0, 1}, start \in Keys :
       ret = [IdleRet EXCEPT !.op = "binary_search", !.index = index,
                             !.start = start]
  /\ pc = "bs_call"
  /\ cm = <<>>
  /\ threshold = Float(0)
  /\ m = 1
  /\ cluster_centers = <<>>
  /\ labels = <<>>
  /\ distances = <<>>
  /\ residual_error = Float(0)
  /\ passes = 0
  /\ regions = <<>>
  /\ new_centers = <<>>
  /\ c_i = 0
  /\ IdleSearch
  /\ IdleBags

\* the list searched by the call in progress
BsList ==
  IF ret.index = 0 THEN x_sorted ELSE y_sorted

\* lines 134-145: binary_search up to its call of bs_mechanism
BsEnter ==
  /\ pc = "bs_call"
  /\ IF Len(BsList) = 0
     THEN /\ pc' = "bs_raised"
          /\ ret' = [ret EXCEPT !.out = Raised("ValueError")]
          /\ UNCHANGED searchVars
     ELSE IF ret.start < At(At(BsList, 0), ret.index)
     THEN /\ pc' = "bs_returned"
          /\ ret' = [ret EXCEPT !.out = ReturnIndex(0)]
          /\ UNCHANGED searchVars
     ELSE IF ret.start > At(At(BsList, Len(BsList) - 1), ret.index)
     THEN /\ pc' = "bs_returned"
          /\ ret' = [ret EXCEPT !.out = ReturnNone]
          /\ UNCHANGED searchVars
     ELSE /\ pc' = "bs_mechanism"
          /\ bs_i' = 0
          /\ bs_j' = Len(BsList) - 1
          /\ UNCHANGED <<ret, bs_depth>>
  /\ UNCHANGED <<inputVars, bagVars, indexVars, slicVars, passVars>>

\* BsStep returning i only when mid == i, not when mid == j
BsStep_lower_bound_only ==
  /\ pc = "bs_mechanism"
  /\ LET mid == UpperMid(bs_i, bs_j)
     IN IF ret.start = At(At(BsList, mid), ret.index)
        THEN /\ pc' = "bs_returned"
             /\ ret' = [ret EXCEPT !.out = ReturnIndex(mid)]
             /\ UNCHANGED searchVars
        ELSE IF mid = bs_i
        THEN /\ pc' = "bs_returned"
             /\ ret' = [ret EXCEPT !.out = ReturnIndex(bs_i)]
             /\ UNCHANGED searchVars
        ELSE IF ret.start < At(At(BsList, mid), ret.index)
        THEN /\ bs_j' = mid
             /\ bs_depth' = bs_depth + 1
             /\ UNCHANGED <<pc, ret, bs_i>>
        ELSE /\ bs_i' = mid
             /\ bs_depth' = bs_depth + 1
             /\ UNCHANGED <<pc, ret, bs_j>>
  /\ UNCHANGED <<inputVars, bagVars, indexVars, slicVars, passVars>>

\* lines 100-108: one call of bs_mechanism(sorted_values, index, start, i, j)
BsStep ==
  /\ pc = "bs_mechanism"
  /\ LET mid == UpperMid(bs_i, bs_j)
     IN IF ret.start = At(At(BsList, mid), ret.index)
        THEN /\ pc' = "bs_returned"
             /\ ret' = [ret EXCEPT !.out = ReturnIndex(mid)]
             /\ UNCHANGED searchVars
        ELSE IF mid = bs_i \/ mid = bs_j
        THEN /\ pc' = "bs_returned"
             /\ ret' = [ret EXCEPT !.out = ReturnIndex(bs_i)]
             /\ UNCHANGED searchVars
        ELSE IF ret.start < At(At(BsList, mid), ret.index)
        THEN /\ bs_j' = mid
             /\ bs_depth' = bs_depth + 1
             /\ UNCHANGED <<pc, ret, bs_i>>
        ELSE /\ bs_i' = mid
             /\ bs_depth' = bs_depth + 1
             /\ UNCHANGED <<pc, ret, bs_j>>
  /\ UNCHANGED <<inputVars, bagVars, indexVars, slicVars, passVars>>

BsNext ==
  \/ BsEnter
  \/ BsStep

BsSpec ==
  BsInit /\ [][BsNext]_vars

\* ------------------------------------------------------------------------
\* preprocessing.py: bag removal of correlated columns
\* ------------------------------------------------------------------------
\* number of columns of the boolean correlation matrix
MaxCols ==
  4

Cols ==
  0..(MaxCols - 1)

\* boolean correlation matrices: symmetric, every column correlated with
\* itself
BoolCorrMatrices ==
  { [rc \in Cols \X Cols |->
       rc[1] = rc[2] \/ {rc[1], rc[2]} \in U] :
    U \in SUBSET { {r, c} : r, c \in Cols } }

\* lines 815-820 of find_corr_cols: the loops over row and col > row, from
\* the cell (row, col) on
RECURSIVE CorrColsLoop(_, _, _, _)
CorrColsLoop(bool_corr_matrix, side, row, col) ==
  IF row >= side - 1 THEN <<>>
  ELSE IF col >= side
  THEN CorrColsLoop(bool_corr_matrix, side, row + 1, row + 2)
  ELSE (IF bool_corr_matrix[<<row, col>>] THEN << <<row, col>> >> ELSE <<>>)
         \o CorrColsLoop(bool_corr_matrix, side, row, col + 1)

find_corr_cols(bool_corr_matrix) ==
  CorrColsLoop(bool_corr_matrix, MaxCols, 0, 1)

\* the loop of getting_bags (lines 714-723) over the pairs from position p
RECURSIVE BagsLoop(_, _, _, _)
BagsLoop(corr_centers, p, bgs, index) ==
  IF p > Len(corr_centers) THEN bgs
  ELSE LET x == corr_centers[p][1]
           y == corr_centers[p][2]
       IN IF Len(bgs) = 0
          THEN BagsLoop(corr_centers, p + 1, Append(bgs, {x, y}), index)
          ELSE IF x \in At(bgs, index)
          THEN BagsLoop(corr_centers, p + 1,
                        [bgs EXCEPT ![index + 1] = @ \cup {y}], index)
          ELSE BagsLoop(corr_centers, p + 1, Append(bgs, {x, y}), index + 1)

getting_bags(corr_centers) ==
  BagsLoop(corr_centers, 1, <<>>, 0)

\* removing_cols_from_bags with the columns picked by choice(list(bag)),
\* picks[b] for bag b
removing_cols_from_bags(bgs, picks) ==
  UNION { bgs[b] \ {picks[b]} : b \in 1..Len(bgs) }

\* bag_approach(edges) is about to be called with the pairs find_corr_cols
\* produced
BagInit ==
  /\ edges \in { find_corr_cols(matrix) : matrix \in BoolCorrMatrices }
  /\ bags = <<>>
  /\ cols_2_rm = {}
  /\ pc = "bag_call"
  /\ barcodes = <<>>
  /\ k = 10
  /\ x_sorted = <<>>
  /\ y_sorted = <<>>
  /\ S = <<0, 1>>
  /\ ret = IdleRet
  /\ cm = <<>>
  /\ threshold = Float(0)
  /\ m = 1
  /\ cluster_centers = <<>>
  /\ labels = <<>>
  /\ distances = <<>>
  /\ residual_error = Float(0)
  /\ passes = 0
  /\ regions = <<>>
  /\ new_centers = <<>>
  /\ c_i = 0
  /\ IdleSearch

\* line 762: bags = getting_bags(edges)
CallGettingBags ==
  /\ pc = "bag_call"
  /\ bags' = getting_bags(edges)
  /\ pc' = "bag_bags"
  /\ UNCHANGED <<inputVars, searchVars, indexVars, slicVars, passVars, ret,
                 edges, cols_2_rm>>

\* line 763: return removing_cols_from_bags(bags), for every outcome of the
\* random choices
CallRemovingCols ==
  /\ pc = "bag_bags"
  /\ \E picks \in [1..Len(bags) -> Cols] :
       /\ \A b \in 1..Len(bags) : picks[b] \in bags[b]
       /\ cols_2_rm' = removing_cols_from_bags(bags, picks)
  /\ pc' = "bag_removed"
  /\ UNCHANGED <<inputVars, searchVars, indexVars, slicVars, passVars, ret,
                 edges, bags>>

BagNext ==
  \/ CallGettingBags
  \/ CallRemovingCols

BagSpec ==
  BagInit /\ [][BagNext]_vars

\* ------------------------------------------------------------------------
\* Properties of the spatial index
\* ------------------------------------------------------------------------
\* the call op has returned to the caller (normally or by raising)
Called(op) ==
  pc = "returned" /\ ret.op = op

\* the list the last call was made on
Searched ==
  Projection(ret.index)

\* the set of triples of the input table, id = 0-based row
TripleSet ==
  { <<barcodes[p][1], barcodes[p][2], p - 1>> : p \in 1..Len(barcodes) }

\* the entries of list whose coordinate lies in [lo, hi]
InInterval(list, index, lo, hi) ==
  { list[p] : p \in { q \in 1..Len(list) :
                        lo <= At(list[q], index) /\ At(list[q], index) <= hi } }

NonDecreasing(list, index) ==
  \A p \in 1..(Len(list) - 1) : At(list[p], index) <= At(list[p + 1], index)

StrictlyIncreasing(list, index) ==
  \A p \in 1..(Len(list) - 1) : At(list[p], index) < At(list[p + 1], index)

\* C1: on a non-empty sorted list and start <= stop, find_bc_range returns
\* exactly the entries whose coordinate lies in [start, stop], ties included.
C1_RangeQueryExact ==
  (Called("find_bc_range") /\ Len(Searched) > 0)
    => /\ ret.out.raised = "none"
       /\ ret.out.bcs = InInterval(Searched, ret.index, ret.start, ret.stop)

C3_BinarySearchFloor ==
  (/\ Called("binary_search")
   /\ Len(Searched) > 0
   /\ StrictlyIncreasing(Searched, ret.index)
   /\ At(Searched[1], ret.index) <= ret.start
   /\ ret.start <= At(Searched[Len(Searched)], ret.index))
    => /\ ret.out.raised = "none"
       /\ ~ ret.out.isNone
       /\ At(At(Searched, ret.out.index), ret.index) <= ret.start
       /\ \A q \in 0..(Len(Searched) - 1) :
            At(At(Searched, q), ret.index) <= ret.start => q <= ret.out.index

\* a key strictly between the last two of three coordinates: index 1
C3_Witness ==
  /\ Called("binary_search")
  /\ Len(Searched) = 3
  /\ StrictlyIncreasing(Searched, ret.index)
  /\ At(Searched[2], ret.index) < ret.start
  /\ ret.start < At(Searched[3], ret.index)
  /\ ret.out.index = 1

\* C4: on a non-empty sorted list binary_search returns index 0 for a key
\* below every stored coordinate and None for a key above every stored
\* coordinate; in the second case find_bc_range returns the empty set.
C4_KeyOutsideList ==
  LET below == \A p \in 1..Len(Searched) : ret.start < At(Searched[p], ret.index)
      above == \A p \in 1..Len(Searched) : ret.start > At(Searched[p], ret.index)
  IN /\ (Called("binary_search") /\ Len(Searched) > 0 /\ below)
          => (ret.out.raised = "none" /\ ~ ret.out.isNone
                /\ ret.out.index = 0)
     /\ (Called("binary_search") /\ Len(Searched) > 0 /\ above)
          => (ret.out.raised = "none" /\ ret.out.isNone)
     /\ (Called("find_bc_range") /\ Len(Searched) > 0 /\ above)
          => (ret.out.raised = "none" /\ ret.out.bcs = {})

\* a key above all three stored coordinates: None
C4_Witness ==
  /\ Called("binary_search")
  /\ Len(Searched) = 3
  /\ \A p \in 1..3 : ret.start > At(Searched[p], ret.index)
  /\ ret.out.isNone

\* k * d^2 <= 4 * n, i.e. |d| <= 2 * S for S = sqrt(n / k)
WithinTwoS(d, grid) ==
  grid[2] * d * d <= 4 * grid[1]

\* C5: find_bc_in_region at (x, y) returns exactly the barcodes within
\* w = 2*S of x on the x axis and of y on the y axis.
C5_RegionQueryWindow ==
  (Called("find_bc_in_region") /\ Len(barcodes) > 0)
    => /\ ret.out.raised = "none"
       /\ ret.out.bcs = { t \in TripleSet :
                            /\ WithinTwoS(t[1] - ret.center[1], S)
                            /\ WithinTwoS(t[2] - ret.center[2], S) }

\* C6: find_bc_in_region called at a barcode's own recorded position returns
\* a set that contains this barcode's triple.
C6_OwnPositionIncluded ==
  Called("find_bc_in_region")
    => \A t \in TripleSet :
         (t[1] = ret.center[1] /\ t[2] = ret.center[2])
           => (ret.out.raised = "none" /\ t \in ret.out.bcs)

\* the index has been constructed
Constructed ==
  pc \in {"ready", "returned"}

\* C9: after construction from a non-empty table, x_sorted and y_sorted each
\* hold exactly one triple (x, y, id) per input row, x_sorted in
\* non-decreasing order of x and y_sorted in non-decreasing order of y.
C9_SortedProjections ==
  (Constructed /\ Len(barcodes) > 0)
    => /\ Len(x_sorted) = Len(barcodes)
       /\ Len(y_sorted) = Len(barcodes)
       /\ { x_sorted[p] : p \in 1..Len(x_sorted) } = TripleSet
       /\ { y_sorted[p] : p \in 1..Len(y_sorted) } = TripleSet
       /\ NonDecreasing(x_sorted, 0)
       /\ NonDecreasing(y_sorted, 1)

\* three barcodes whose two projections differ from each other and from the
\* input order
C9_Witness ==
  /\ pc = "ready"
  /\ Len(barcodes) = 3
  /\ x_sorted # y_sorted
  /\ x_sorted # xy(barcodes)
  /\ y_sorted # xy(barcodes)

\* C10 as stated: construction from an empty position table (k >= 1) fails
\* with the empty-input error and builds no index.
C10_EmptyTableRejected ==
  (Len(barcodes) = 0 /\ k >= 1 /\ pc # "new")
    => (pc = "raised" /\ ret.out.raised = "ValueError")

\* C10 amended: construction from an empty position table with k >= 1
\* succeeds with two empty projections; the empty-input error (ValueError)
\* is raised by the searches made on the index afterwards.
C10_EmptyTableDeferred ==
  (Len(barcodes) = 0 /\ k >= 1 /\ pc # "new")
    => /\ Constructed
       /\ x_sorted = <<>>
       /\ y_sorted = <<>>
       /\ (ret.op \in {"binary_search", "find_bc_range"}
             => ret.out.raised = "ValueError")

\* a range query on the index built from the empty table has raised
C10_Witness ==
  /\ Len(barcodes) = 0
  /\ Called("find_bc_range")
  /\ ret.out.raised = "ValueError"

\* C11: constructing BCMap from a position table with zero barcodes and
\* k = 10 succeeds: the constructor returns an index whose projections
\* x_sorted and y_sorted are both the empty list.
C11_EmptyTableConstructs ==
  [][(pc = "new" /\ Len(barcodes) = 0 /\ k = 10)
       => /\ pc' = "ready"
          /\ ret'.op = "__init__"
          /\ ret'.out.raised = "none"
          /\ x_sorted' = <<>>
          /\ y_sorted' = <<>>]_vars

\* the index of the empty table with k = 10, just constructed
C11_Witness ==
  /\ Len(barcodes) = 0
  /\ k = 10
  /\ pc = "ready"
  /\ ret.op = "__init__"
  /\ x_sorted = <<>>
  /\ y_sorted = <<>>

\* C12: on an index holding zero barcodes, binary_search, find_bc_range and
\* find_bc_in_region all fail with the empty-input error (ValueError).
C12_EmptyIndexRaisesEmptyInput ==
  (Len(barcodes) = 0 /\ pc = "returned"
     /\ ret.op \in {"binary_search", "find_bc_range", "find_bc_in_region"})
    => ret.out.raised = "ValueError"

\* C13: on a non-empty sorted list, find_bc_range with start = stop = v
\* returns exactly the entries whose coordinate equals v: all the entries
\* that tie on v, and the empty set when no entry has coordinate v.
C13_PointQueryExact ==
  (Called("find_bc_range") /\ Len(Searched) > 0 /\ ret.start = ret.stop)
    => /\ ret.out.raised = "none"
       /\ ret.out.bcs = { Searched[p] : p \in { q \in 1..Len(Searched) :
                            At(Searched[q], ret.index) = ret.start } }

\* the entries of the result whose coordinate is below start
BelowStart ==
  { e \in ret.out.bcs : At(e, ret.index) < ret.start }

\* C27: on a non-empty sorted list (ties allowed) and start <= stop, the set
\* find_bc_range returns has no entry with a coordinate above stop and at
\* most one entry with a coordinate below start, which is then the entry at
\* the index binary_search returns.
C27_RangeQueryOvershoot ==
  (Called("find_bc_range") /\ Len(Searched) > 0)
    => /\ ret.out.raised = "none"
       /\ \A e \in ret.out.bcs : At(e, ret.index) <= ret.stop
       /\ Cardinality(BelowStart) <= 1
       /\ \A e \in BelowStart :
            LET found == binary_search(Searched, ret.index, ret.start)
            IN /\ found.raised = "none"
               /\ ~ found.isNone
               /\ e = At(Searched, found.index)

\* a list with a tie queried from between two coordinates: one entry of the
\* result lies below start, another inside [start, stop]
C27_Witness ==
  /\ Called("find_bc_range")
  /\ ~ StrictlyIncreasing(Searched, ret.index)
  /\ Cardinality(BelowStart) = 1
  /\ ret.out.bcs # BelowStart

\* C24: the binary search terminates.  A call of bs_mechanism on [i, j]
\* recurses only when i < mid < j, and then on a strictly smaller interval
\* inside [i, j]; a call on an interval of size 1 or 2 returns without
\* recursing; the index returned is the one the whole search computes.
C24_SearchIntervalShrinks ==
  [][pc = "bs_mechanism"
       => /\ (pc' = "bs_mechanism"
                => /\ bs_i < UpperMid(bs_i, bs_j)
                   /\ UpperMid(bs_i, bs_j) < bs_j
                   /\ bs_i <= bs_i' /\ bs_i' <= bs_j' /\ bs_j' <= bs_j
                   /\ bs_j' - bs_i' < bs_j - bs_i)
          /\ (bs_j - bs_i <= 1 => pc' = "bs_returned")
          /\ (pc' = "bs_returned"
                => ret'.out = binary_search(BsList, ret.index, ret.start))
    ]_vars

\* a search on three entries that recursed once and is on a two-entry
\* interval
C24_Witness ==
  /\ pc = "bs_mechanism"
  /\ Len(BsList) = 3
  /\ bs_depth = 1
  /\ bs_j - bs_i = 1

\* ------------------------------------------------------------------------
\* Properties of slic
\* ------------------------------------------------------------------------
\* n >= 1 barcodes, 1 <= k <= n, m in [1, 40]
WellFormed ==
  /\ Len(barcodes) >= 1
  /\ 1 <= k
  /\ k <= Len(barcodes)
  /\ 1 <= m
  /\ m <= 40

\* C7: when slic returns, the label list has length n and every label is a
\* centre index in [0, k): no barcode keeps the unassigned sentinel -1.
C7_EveryBarcodeLabelled ==
  (pc = "slic_returned" /\ WellFormed)
    => /\ Len(labels) = Len(barcodes)
       /\ \A i \in 1..Len(labels) : 0 <= labels[i] /\ labels[i] < k

\* C8: for well-formed input slic halts by returning the label vector, after
\* at most the iteration cap of passes (the smallest admissible cap is 1).
C8_HaltsWithinCap ==
  (pc \in {"slic_returned", "slic_raised"} /\ WellFormed)
    => (pc = "slic_returned" /\ passes <= 1)

\* C14: a call with m outside [1, 40], k <= 0 or k > n is rejected with
\* InvalidParameter before the index is queried, a pass is started or any
\* cell of labels or distances is written.
C14_InvalidParametersRejected ==
  (pc # "slic_call"
     /\ (k <= 0 \/ k > Len(barcodes) \/ m < 1 \/ m > 40))
    => /\ pc = "slic_raised"
       /\ ret.out.raised = "InvalidParameter"
       /\ passes = 0
       /\ labels = <<>>
       /\ distances = <<>>

C20_ArraysSizedByBarcodes ==
  (pc = "slic_loop" /\ passes = 0)
    => /\ Len(labels) = Len(barcodes)
       /\ \A p \in 1..Len(labels) : labels[p] = -1
       /\ Len(distances) = Len(barcodes)
       /\ \A p \in 1..Len(distances) : distances[p] = Infinity

\* C21: a pass gives every centre the mean of the (position, counts)
\* vectors folded into it; with a single barcode and k = 1 the pass ends
\* with the sole centre equal to that barcode's position and counts.
C21_SingleBarcodeCentre ==
  [][(pc = "slic_loop" /\ passes' = passes + 1
        /\ Len(barcodes) = 1 /\ k = 1)
       => /\ pc' = "slic_loop"
          /\ cluster_centers' = <<CentreValue(barcodes[1] \o cm.rows[1], 1)>>
    ]_vars

\* ------------------------------------------------------------------------
\* Properties of barcode_distance
\* ------------------------------------------------------------------------
\* sum over the components p..Len(a) of the squared differences
RECURSIVE SquaredDifferences(_, _, _)
SquaredDifferences(a, b, p) ==
  IF p > Len(a) THEN 0
  ELSE (a[p] - b[p]) * (a[p] - b[p]) + SquaredDifferences(a, b, p + 1)

\* the gene counts of the centre evaluated
CentreGenes ==
  SubSeq(cluster_centers[1], 3, Len(cluster_centers[1]))

\* C16: when the centre position equals the barcode position, the value of
\* barcode_distance is the Euclidean distance between the two count vectors
\* (its square is the sum of their squared differences), whatever S > 0 and
\* m are; it is 0 when the count vectors are equal too.
C16_EqualPositionsCountDistance ==
  (pc = "dist_returned"
     /\ SubSeq(cluster_centers[1], 1, 2) = barcodes[1])
    => /\ ~ distances[1].infinite
       /\ distances[1].num
            = distances[1].den * SquaredDifferences(CentreGenes, cm.rows[1], 1)
       /\ (CentreGenes = cm.rows[1] => distances[1].num = 0)

\* equal positions, different counts, m = 40 and S # 1: the distance is 1
C16_Witness ==
  /\ pc = "dist_returned"
  /\ SubSeq(cluster_centers[1], 1, 2) = barcodes[1]
  /\ CentreGenes # cm.rows[1]
  /\ m = 40
  /\ S[1] # S[2]
  /\ distances[1].num = distances[1].den

\* ------------------------------------------------------------------------
\* Properties of find_new_clusters
\* ------------------------------------------------------------------------
\* the centre the loop is about to process
AtCentre ==
  pc = "pass_centre" /\ c_i < Len(cluster_centers)

CurrentCentre ==
  cluster_centers[c_i + 1]

\* the barcodes the region query returns for the centre in process
CurrentRegion ==
  regions[CurrentCentre]

\* combined distance of the barcode with triple t to a centre
CombinedDistance(center, t) ==
  barcode_distance(SubSeq(center, 1, 2), SubSeq(center, 3, Len(center)),
                   <<t[1], t[2]>>, cm.rows[t[3] + 1], S, m)

\* distance d is finite and strictly smaller than best
StrictlySmaller(d, best) ==
  IF best.infinite THEN ~ d.infinite
  ELSE ~ d.infinite /\ d.num * best.den < best.num * d.den

\* no barcode of the region is strictly closer to the centre in process
\* than its best distance: the centre folds zero barcodes
FoldsNothing ==
  \A t \in CurrentRegion :
    ~ StrictlySmaller(CombinedDistance(CurrentCentre, t), distances[t[3] + 1])

PassEnded ==
  pc \in {"pass_returned", "pass_raised"}

\* number of barcodes folded into centre c in the pass that has ended
FoldCount(c) ==
  IF c < Len(new_centers) THEN new_centers[c + 1].n ELSE 0

Processed ==
  { c \in 0..(Len(cluster_centers) - 1) : c <= c_i }

\* the processed centres whose region query returned the barcode t
Returning(t) ==
  { c \in Processed : t \in regions[cluster_centers[c + 1]] }

\* centre c attains the minimum combined distance to t among Returning(t)
Nearest(c, t) ==
  \A e \in Returning(t) :
    ~ StrictlySmaller(CombinedDistance(cluster_centers[e + 1], t),
                      CombinedDistance(cluster_centers[c + 1], t))

RECURSIVE Chained(_, _)
Chained(cs, n) ==
  IF n = 0 THEN cs
  ELSE Chained(cs \cup { c \in Cols :
                           \E p \in 1..Len(edges) :
                             \/ edges[p][1] \in cs /\ edges[p][2] = c
                             \/ edges[p][2] \in cs /\ edges[p][1] = c },
               n - 1)

\* the columns that occur in a pair
Correlated ==
  { c \in Cols : \E p \in 1..Len(edges) : c \in {edges[p][1], edges[p][2]} }

\* C25: getting_bags puts two columns that are connected, directly or by a
\* chain of correlated pairs, into one and the same bag, and the bags are
\* pairwise disjoint.
C25_BagsAreComponents ==
  pc \in {"bag_bags", "bag_removed"}
    => /\ \A a \in Correlated : \A b \in Chained({a}, MaxCols) :
            \E g \in 1..Len(bags) : {a, b} \subseteq bags[g]
       /\ \A g, h \in 1..Len(bags) : g # h => bags[g] \cap bags[h] = {}

\* C26: whatever the random choices, exactly one column of every bag is
\* absent from the removal set and all its other columns are in it.
C26_OneColumnKeptPerBag ==
  pc = "bag_removed"
    => \A g \in 1..Len(bags) : Cardinality(bags[g] \ cols_2_rm) = 1

====
